---------------------------- MODULE Spec2Model ----------------------------
(***************************************************************************)
(* A model of SimpleBlogGenerator                                          *)
(* (src/simple_blog_generator/simple_blog_generator.py): the content tree  *)
(* on disk, one generator instance (categories, posts, sorted_posts), the  *)
(* output tree it writes, and the public operations generate(), clean(),   *)
(* get_most_recent_post_titles() and get_most_recent_posts().              *)
(***************************************************************************)
EXTENDS Integers, Sequences, FiniteSets, TLC

VARIABLES
    tree,                      \* content directory: <<[name, files]>>, one per category directory
    category_page_post_limit,  \* self.category_page_post_limit
    index_page_post_limit,     \* self.index_page_post_limit
    categories,                \* self.categories
    posts,                     \* self.posts      ([isNone, items])
    sorted_posts,              \* self.sorted_posts ([isNone, groups])
    out_dirs,                  \* directories of the output tree (paths)
    out_files,                 \* files of the output tree (path -> what was written)
    dirty,                     \* the running generate() was called on an output directory that held files
    pc,                        \* position inside generate(), "returned" or "idle"
    status,                    \* how the last call ended
    call,                      \* the last public call and its arguments
    ret                        \* what the last call returned

vars == <<tree, category_page_post_limit, index_page_post_limit, categories, posts,
          sorted_posts, out_dirs, out_files, dirty, pc, status, call, ret>>

---------------------------------------------------------------------------
(* Bounds *)

MaxPosts == 3
MaxPageSize == 2
MaxPages == 12

---------------------------------------------------------------------------
(* Values *)

None == "None"

\* Names of directories and files that occur in the content trees explored.
Names == {"tech", "Life", "all_posts", "sub", "a", "b", "c", "C", "d", "e"}

\* str.lower() on the names above.
Lower(s) ==
    CASE s = "Life" -> "life"
      [] s = "C" -> "c"
      [] OTHER -> s

\* The category directories found by os.walk at construction, in walk order.
CategoryLayouts == { <<"tech", "Life">>, <<"tech", "all_posts">> }

\* The files an author may put under a category directory: name, extension,
\* the metadata the markdown converter reports (None: key absent), the
\* directory the file lies in (parent, relative to the category directory) and
\* the directories that the author makes together with the file (dirs, relative
\* to the category directory): a.md comes with the sibling directory a/,
\* b.md lies in its own directory b/, and c.md lies in sub/ beside its assets
\* directory sub/c/.
\* They are listed in the order in which os.walk comes across them: the files
\* of the category directory first, then those of its sub-directories; the
\* order of a directory listing depends on the names, not on when a file was
\* added.
FileCatalog ==
    << [name |-> "a", ext |-> ".md", title |-> "A", date |-> "2024/01/01",
        parent |-> <<>>, dirs |-> {<<"a">>}],
       [name |-> "C", ext |-> ".md", title |-> "C2", date |-> "2024-01-02",
        parent |-> <<>>, dirs |-> {}],
       [name |-> "d", ext |-> ".md", title |-> None, date |-> "2024/01/02",
        parent |-> <<>>, dirs |-> {}],
       [name |-> "e", ext |-> ".md", title |-> "E", date |-> None,
        parent |-> <<>>, dirs |-> {}],
       [name |-> "tech", ext |-> ".md", title |-> "T", date |-> "2024/01/02",
        parent |-> <<>>, dirs |-> {}],
       [name |-> "b", ext |-> ".md", title |-> "B", date |-> "2024/01/03",
        parent |-> <<"b">>, dirs |-> {<<"b">>}],
       [name |-> "c", ext |-> ".md", title |-> "C", date |-> "2024/1/3",
        parent |-> <<"sub">>, dirs |-> {<<"sub">>, <<"sub", "c">>}] >>

\* The content trees explored: the files that the first and the second
\* category directory may come to hold (a.md may be in both).
MayHold(i, f) ==
    IF i = 1 THEN f.name \in {"a", "b", "c", "C", "d"} ELSE f.name \in {"a", "e", "tech"}

\* Position of a file in a directory listing.
ListingIndex(f) == CHOOSE k \in 1..Len(FileCatalog) : FileCatalog[k] = f

\* The listing of a directory that holds the files of listing `files` and f.
ListingWith(files, f) ==
    LET before == SelectSeq(files, LAMBDA g : ListingIndex(g) < ListingIndex(f))
        after == SelectSeq(files, LAMBDA g : ListingIndex(g) > ListingIndex(f))
    IN  before \o <<f>> \o after

\* datetime.datetime.strptime(date_string, "%Y/%m/%d"): <<ok, year, month, day>>.
\* %m and %d accept one or two digits; any other separator raises ValueError.
strptime(date_string) ==
    CASE date_string = "2024/01/01" -> <<TRUE, 2024, 1, 1>>
      [] date_string = "2024/01/02" -> <<TRUE, 2024, 1, 2>>
      [] date_string = "2024/01/03" -> <<TRUE, 2024, 1, 3>>
      [] date_string = "2024/1/3" -> <<TRUE, 2024, 1, 3>>
      [] OTHER -> <<FALSE, 0, 0, 0>>

\* The order of datetime values: a number that grows with (year, month, day).
DateKey(d) == (d[2] * 12 + (d[3] - 1)) * 31 + (d[4] - 1)


---------------------------------------------------------------------------
(* Outcomes of a call *)

Ok == [kind |-> "ok", code |-> 0, message |-> <<>>]

\* exit(1) after print(...): SystemExit with the text printed.
SystemExit(message) == [kind |-> "SystemExit", code |-> 1, message |-> message]

\* An exception that nothing in the class catches.
Raise(kind, message) == [kind |-> kind, code |-> 1, message |-> message]

Range(seq) == { seq[i] : i \in 1..Len(seq) }

---------------------------------------------------------------------------
(* Document Loader *)

\* The directory of category `category` in the content tree: its files in walk order.
CategoryFiles(t, category) ==
    IF \E i \in 1..Len(t) : t[i].name = category
    THEN t[CHOOSE i \in 1..Len(t) : t[i].name = category].files
    ELSE <<>>

\* _get_post_file_paths: the files ending in ".md", in walk order.
_get_post_file_paths(files) == SelectSeq(files, LAMBDA f : f.ext = ".md")

\* The files of one category paired with the category.
InCategory(category, found) ==
    [i \in 1..Len(found) |-> [category |-> category, file |-> found[i]]]

RECURSIVE Discover(_, _)
\* The (category, file) pairs in the order the two loops of _get_posts visit them.
Discover(t, cats) ==
    IF cats = <<>> THEN <<>>
    ELSE InCategory(Head(cats), _get_post_file_paths(CategoryFiles(t, Head(cats))))
         \o Discover(t, Tail(cats))

\* The directories under the directory of category (paths relative to the
\* content directory).
CategoryDirs(t, category) ==
    { <<category>> \o d : d \in UNION { f.dirs : f \in Range(CategoryFiles(t, category)) } }

\* os.path.isdir(os.path.join(category_directory, post_title))
IsDir(t, category, post_title) == <<category, post_title>> \in CategoryDirs(t, category)

\* pathlib.Path(path_string).parent: the directory a file lies in.
ParentOf(category, file) == <<category>> \o file.parent

\* The assets path _get_posts gives a file: its parent directory when the
\* lower-cased name of the parent is post_title; else the directory post_title
\* of the category directory when there is one; else <<>> (None).
AssetPath(t, category, file, post_title) ==
    IF Lower(ParentOf(category, file)[Len(ParentOf(category, file))]) = post_title
    THEN ParentOf(category, file)
    ELSE IF IsDir(t, category, post_title) THEN <<category, post_title>>
    ELSE <<>>

\* The dictionary entry self.posts[post_title] once fully populated; path is
\* <<directory, base name, extension>>.
PostEntry(t, category, file) ==
    [slug |-> Lower(file.name),
     path |-> <<ParentOf(category, file), file.name, file.ext>>,
     category |-> category,
     assets |-> AssetPath(t, category, file, Lower(file.name)),
     title |-> file.title,
     date |-> file.date]

HasSlug(items, slug) == \E i \in 1..Len(items) : items[i].slug = slug

\* A loader that is not the code's: the "date" key is not required.
Required_title_only(items, entry, file) ==
    IF file.title = None
    THEN [items |-> Append(items, [entry EXCEPT !.title = None, !.date = None]),
          status |-> SystemExit(<<"No title metadata specified in">> \o entry.path)]
    ELSE [items |-> Append(items, entry), status |-> Ok]

\* The required metadata of the loop body of _get_posts: entry is stored in
\* self.posts before the keys are looked at, and exit(1) leaves it there.
Required(items, entry, file) ==
    IF file.title = None
    THEN [items |-> Append(items, [entry EXCEPT !.title = None, !.date = None]),
          status |-> SystemExit(<<"No title metadata specified in">> \o entry.path)]
    ELSE IF file.date = None
    THEN [items |-> Append(items, entry),
          status |-> SystemExit(<<"No date metadata specified in">> \o entry.path)]
    ELSE [items |-> Append(items, entry), status |-> Ok]

\* One pass of the loop body of _get_posts, for one discovered file; items is
\* self.posts so far.
LoadOne(t, items, category, file) ==
    IF HasSlug(items, Lower(file.name))
    THEN [items |-> items, status |-> SystemExit(<<"Error: Post name must be unique">>)]
    ELSE Required(items, PostEntry(t, category, file), file)

\* The rest of the loops after one pass that ended as `one`.
RECURSIVE LoadFrom(_, _, _)
LoadRest(t, found, one) ==
    IF one.status.kind # "ok" THEN one ELSE LoadFrom(t, Tail(found), one.items)

\* The loops of _get_posts over the discovered files, stopping at the first exit.
LoadFrom(t, found, items) ==
    IF found = <<>> THEN [items |-> items, status |-> Ok]
    ELSE LoadRest(t, found, LoadOne(t, items, Head(found).category, Head(found).file))

\* _get_posts: self.posts = {} and then every file of every category of self.categories.
_get_posts(t, cats) == LoadFrom(t, Discover(t, cats), <<>>)


---------------------------------------------------------------------------
(* Index Builder *)

RECURSIVE InsertDescending(_, _)
\* e placed after every element whose date is >= e's date.
InsertDescending(sorted_seq, e) ==
    IF sorted_seq = <<>> THEN <<e>>
    ELSE IF Head(sorted_seq)[2] >= e[2]
         THEN <<Head(sorted_seq)>> \o InsertDescending(Tail(sorted_seq), e)
         ELSE <<e>> \o sorted_seq

RECURSIVE SortFrom(_, _)
SortFrom(rest, acc) ==
    IF rest = <<>> THEN acc ELSE SortFrom(Tail(rest), InsertDescending(acc, Head(rest)))

RECURSIVE InsertAscending(_, _)
InsertAscending(sorted_seq, e) ==
    IF sorted_seq = <<>> THEN <<e>>
    ELSE IF Head(sorted_seq)[2] <= e[2]
         THEN <<Head(sorted_seq)>> \o InsertAscending(Tail(sorted_seq), e)
         ELSE <<e>> \o sorted_seq

RECURSIVE AscendingFrom(_, _)
AscendingFrom(rest, acc) ==
    IF rest = <<>> THEN acc ELSE AscendingFrom(Tail(rest), InsertAscending(acc, Head(rest)))

\* A sort that is not the code's: list(reversed(sorted(group, key=...))), which
\* turns round the documents of one date.
sorted_then_reversed(group) ==
    [i \in 1..Len(group) |-> AscendingFrom(group, <<>>)[Len(group) + 1 - i]]

\* sorted(group, key=lambda elem: elem[1], reverse=True) on (post_title, date)
\* tuples: descending by date, elements with equal dates in their original order.
sorted_reverse(group) == SortFrom(group, <<>>)

\* {category: list() for category in self.categories} plus the "all_posts" key.
EmptyGroups(cats) == [g \in Range(cats) \cup {"all_posts"} |-> <<>>]

\* The (post_title, date) tuple appended to the post's category and to "all_posts".
Grouped(groups, category, elem) ==
    [[groups EXCEPT ![category] = Append(@, elem)] EXCEPT !["all_posts"] = Append(@, elem)]

RECURSIVE GroupFrom(_, _)
\* One pass of the loop of _sort_posts, for a post whose date parsed as date.
GroupOne(items, groups, post, date) ==
    IF ~date[1]
    THEN [groups |-> groups,
          status |-> Raise("ValueError",
              <<"time data", post.date, "does not match format", "%Y/%m/%d">>)]
    ELSE GroupFrom(Tail(items), Grouped(groups, post.category, <<post.slug, DateKey(date)>>))

\* The loop of _sort_posts over self.posts.items(); groups is self.sorted_posts so
\* far. A post without a "date" key raises KeyError, a date that does not parse
\* raises ValueError, and the groups filled so far stay in self.sorted_posts.
GroupFrom(items, groups) ==
    IF items = <<>> THEN [groups |-> groups, status |-> Ok]
    ELSE IF Head(items).date = None
    THEN [groups |-> groups, status |-> Raise("KeyError", <<"date">>)]
    ELSE IF Head(items).category \notin DOMAIN groups
    THEN [groups |-> groups, status |-> Raise("KeyError", <<Head(items).category>>)]
    ELSE GroupOne(items, groups, Head(items), strptime(Head(items).date))

Some(v) == [isNone |-> FALSE, v |-> v]
NoneOf(v) == [isNone |-> TRUE, v |-> v]

\* Python truth of self.posts / self.sorted_posts: None and empty are both false.
Truthy(opt, empty) == ~opt.isNone /\ opt.v # empty

NoGroups == [g \in {} |-> <<>>]

\* The fields of the instance that the index and the queries read and write.
Instance(cats, p, sp) == [categories |-> cats, posts |-> p, sorted_posts |-> sp]

\* The end of _sort_posts: the "all_posts" group sorted; the key is missing
\* (KeyError) when the pruning has dropped it.
SortAll(items, kept, by_category) ==
    IF "all_posts" \notin DOMAIN by_category
    THEN [inst |-> Instance(kept, Some(items), Some(by_category)),
          status |-> Raise("KeyError", <<"all_posts">>)]
    ELSE [inst |-> Instance(kept, Some(items),
                            Some([by_category EXCEPT !["all_posts"] = sorted_reverse(@)])),
          status |-> Ok]

\* Every category left in self.categories sorted.
SortCategories(items, kept, pruned) ==
    SortAll(items, kept,
            [g \in DOMAIN pruned |->
                IF g \in Range(kept) THEN sorted_reverse(pruned[g]) ELSE pruned[g]])

\* "Remove all categories with no posts": from self.categories, and every key
\* with an empty list from self.sorted_posts.
Prune(items, cats, groups) ==
    SortCategories(items,
                   SelectSeq(cats, LAMBDA c : Len(groups[c]) > 0),
                   [g \in { k \in DOMAIN groups : Len(groups[k]) > 0 } |-> groups[g]])

\* _sort_posts once the loop over the posts has ended as grouped.
AfterGrouping(cats, items, grouped) ==
    IF grouped.status.kind # "ok"
    THEN [inst |-> Instance(cats, Some(items), Some(grouped.groups)),
          status |-> grouped.status]
    ELSE Prune(items, cats, grouped.groups)

\* _sort_posts once self.posts is there (loaded is how _get_posts ended).
AfterLoading(inst, loaded) ==
    IF loaded.status.kind # "ok"
    THEN [inst |-> Instance(inst.categories, Some(loaded.items), inst.sorted_posts),
          status |-> loaded.status]
    ELSE AfterGrouping(inst.categories, loaded.items,
                       GroupFrom(loaded.items, EmptyGroups(inst.categories)))

\* An index build that is not the code's: _sort_posts without its
\* "if not self.posts: self._get_posts()", so that it never loads.
LoadIfNeeded_never(t, inst) == [items |-> inst.posts.v, status |-> Ok]

\* "if not self.posts: self._get_posts()"
LoadIfNeeded(t, inst) ==
    IF Truthy(inst.posts, <<>>) THEN [items |-> inst.posts.v, status |-> Ok]
    ELSE _get_posts(t, inst.categories)

\* _sort_posts on instance inst with content tree t: the instance after the
\* call and how the call ended.
_sort_posts(t, inst) == AfterLoading(inst, LoadIfNeeded(t, inst))

\* self._sort_posts() in generate(), after self._get_posts() ended as loaded.
SortLoaded(t, cats, loaded) ==
    IF loaded.status.kind # "ok"
    THEN [inst |-> Instance(cats, Some(loaded.items), NoneOf(NoGroups)),
          status |-> loaded.status]
    ELSE _sort_posts(t, Instance(cats, Some(loaded.items), NoneOf(NoGroups)))

\* The first three statements of generate() as far as the instance goes:
\* self.clean(), self._get_posts(), self._sort_posts().
generate_index(t, inst) == SortLoaded(t, inst.categories, _get_posts(t, inst.categories))

---------------------------------------------------------------------------
(* Paginator *)

Digit(d) == <<"0", "1", "2", "3", "4", "5", "6", "7", "8", "9">>[d + 1]

RECURSIVE ToStr(_)
\* The decimal text of a natural number, as an f-string formats it.
ToStr(n) == IF n < 10 THEN Digit(n) ELSE ToStr(n \div 10) \o Digit(n % 10)

\* A naming that is not the code's: the previous page of page 1 named like every
\* other page, page0.html, instead of index.html.
_get_page_name_numbered(page_number, number_of_pages) ==
    << IF page_number = 0 THEN "index.html"
       ELSE "page" \o ToStr(page_number) \o ".html",
       IF page_number = 0 THEN None
       ELSE "page" \o ToStr(page_number - 1) \o ".html",
       IF page_number = number_of_pages - 1 THEN None
       ELSE "page" \o ToStr(page_number + 1) \o ".html" >>

\* _get_page_name: <<page_name, previous_page, next_page>>.
_get_page_name(page_number, number_of_pages) ==
    << IF page_number = 0 THEN "index.html"
       ELSE "page" \o ToStr(page_number) \o ".html",
       IF page_number = 0 THEN None
       ELSE IF page_number = 1 THEN "index.html"
       ELSE "page" \o ToStr(page_number - 1) \o ".html",
       IF page_number = number_of_pages - 1 THEN None
       ELSE "page" \o ToStr(page_number + 1) \o ".html" >>

\* A page count that is not the code's: one more page whatever the remainder.
NumberOfPages_plus_one(number_of_posts, limit) == (number_of_posts \div limit) + 1

\* A page count that is not the code's: the remainder forgotten.
NumberOfPages_floor(number_of_posts, limit) == number_of_posts \div limit

\* number_of_posts // limit, plus one when number_of_posts % limit is not zero.
NumberOfPages(number_of_posts, limit) ==
    (number_of_posts \div limit) + (IF number_of_posts % limit # 0 THEN 1 ELSE 0)

\* post_titles[offset:offset+number] when there are enough posts, else post_titles[offset:].
TitleSlice(post_titles, number, offset) ==
    IF Len(post_titles) >= number + offset
    THEN SubSeq(post_titles, offset + 1, offset + number)
    ELSE SubSeq(post_titles, offset + 1, Len(post_titles))

\* post_titles = [post[0] for post in self.sorted_posts[category]]
PostTitles(group) == [i \in 1..Len(group) |-> group[i][1]]

\* A check that is not the code's: "assert offset <= number_of_posts".
Recent_inclusive(inst, post_titles, number, offset) ==
    IF Len(post_titles) = 0
    THEN [inst |-> inst, status |-> Ok, ret |-> <<>>]
    ELSE IF ~(offset <= Len(post_titles))
    THEN [inst |-> inst, status |-> Raise("AssertionError", <<"offset">>), ret |-> <<>>]
    ELSE [inst |-> inst, status |-> Ok, ret |-> TitleSlice(post_titles, number, offset)]

\* The end of get_most_recent_post_titles, from the list of titles on.
Recent(inst, post_titles, number, offset) ==
    IF Len(post_titles) = 0
    THEN [inst |-> inst, status |-> Ok, ret |-> <<>>]
    ELSE IF ~(offset < Len(post_titles))
    THEN [inst |-> inst, status |-> Raise("AssertionError", <<"offset">>), ret |-> <<>>]
    ELSE [inst |-> inst, status |-> Ok, ret |-> TitleSlice(post_titles, number, offset)]

\* get_most_recent_post_titles after "if not self.sorted_posts: self._sort_posts()",
\* which ended as srt.
RecentTitles(srt, category, number, offset) ==
    IF srt.status.kind # "ok"
    THEN [inst |-> srt.inst, status |-> srt.status, ret |-> <<>>]
    ELSE IF category \notin DOMAIN srt.inst.sorted_posts.v
    THEN [inst |-> srt.inst, status |-> Raise("KeyError", <<category>>), ret |-> <<>>]
    ELSE Recent(srt.inst, PostTitles(srt.inst.sorted_posts.v[category]), number, offset)

\* "if not self.sorted_posts: self._sort_posts()"
SortIfNeeded(t, inst) ==
    IF Truthy(inst.sorted_posts, NoGroups) THEN [inst |-> inst, status |-> Ok]
    ELSE _sort_posts(t, inst)

\* The two assertions that open both queries.
ValidateInputs(inst, category, number) ==
    IF number = 0 THEN Raise("AssertionError", <<"number != 0">>)
    ELSE IF ~(category \in Range(inst.categories) \/ category = "all_posts")
    THEN Raise("AssertionError", <<"category">>)
    ELSE Ok

\* get_most_recent_post_titles(category, number, offset) on instance inst:
\* the instance after the call, how the call ended, and the list returned.
get_most_recent_post_titles(t, inst, category, number, offset) ==
    IF ValidateInputs(inst, category, number).kind # "ok"
    THEN [inst |-> inst, status |-> ValidateInputs(inst, category, number), ret |-> <<>>]
    ELSE RecentTitles(SortIfNeeded(t, inst), category, number, offset)

\* self.posts[post_title]
PostOf(items, post_title) == items[CHOOSE i \in 1..Len(items) : items[i].slug = post_title]

\* [self.posts[post_title]["post"] for post_title in post_titles]
PostsOf(titles) ==
    IF titles.status.kind # "ok" THEN titles
    ELSE IF \E i \in 1..Len(titles.ret) : ~HasSlug(titles.inst.posts.v, titles.ret[i])
    THEN [inst |-> titles.inst, status |-> Raise("KeyError", <<"post_title">>), ret |-> <<>>]
    ELSE [inst |-> titles.inst, status |-> Ok,
          ret |-> [i \in 1..Len(titles.ret) |-> PostOf(titles.inst.posts.v, titles.ret[i])]]

\* get_most_recent_posts after its own "if not self.sorted_posts: self._sort_posts()".
RecentPosts(t, srt, category, number, offset) ==
    IF srt.status.kind # "ok"
    THEN [inst |-> srt.inst, status |-> srt.status, ret |-> <<>>]
    ELSE PostsOf(get_most_recent_post_titles(t, srt.inst, category, number, offset))

\* get_most_recent_posts(category, number, offset): as above, returning the posts.
get_most_recent_posts(t, inst, category, number, offset) ==
    IF ValidateInputs(inst, category, number).kind # "ok"
    THEN [inst |-> inst, status |-> ValidateInputs(inst, category, number), ret |-> <<>>]
    ELSE RecentPosts(t, SortIfNeeded(t, inst), category, number, offset)

---------------------------------------------------------------------------
(* Page Assembler: the output tree *)

NoFiles == [path \in {} |-> <<>>]

\* The file at path holds content afterwards (open(file_name, "w") replaces it).
WriteFile(files, path, content) ==
    [q \in DOMAIN files \cup {path} |-> IF q = path THEN content ELSE files[q]]

\* What a rendered page shows: the navigation list, the page's category, the
\* links to the neighbouring pages and the urls of the posts on it.
Page(kind, cats, page_category, previous_page, next_page, urls) ==
    [kind |-> kind, categories |-> cats, page_category |-> page_category,
     previous_page |-> previous_page, next_page |-> next_page, posts |-> urls]

\* _copy_static_assets: the theme's static directory mirrored to <output>/static.
_copy_static_assets(dirs, files) ==
    IF <<"static">> \in dirs
    THEN [dirs |-> dirs, files |-> files, status |-> Raise("FileExistsError", <<"static">>)]
    ELSE [dirs |-> dirs \cup {<<"static">>},
          files |-> WriteFile(files, <<"static", "style.css">>,
                              Page("asset", <<>>, None, None, None, <<>>)),
          status |-> Ok]

RECURSIVE _copy_post_assets(_, _, _)
\* _copy_post_assets: <output>/<slug> made for every post (copytree and mkdir
\* both raise FileExistsError when the directory is there already).
_copy_post_assets(items, dirs, files) ==
    IF items = <<>> THEN [dirs |-> dirs, files |-> files, status |-> Ok]
    ELSE IF <<Head(items).slug>> \in dirs
    THEN [dirs |-> dirs, files |-> files,
          status |-> Raise("FileExistsError", <<Head(items).slug>>)]
    ELSE _copy_post_assets(Tail(items), dirs \cup {<<Head(items).slug>>}, files)

RECURSIVE _generate_post_pages(_, _, _)
\* _generate_post_pages: <output>/<slug>/index.html for every post.
_generate_post_pages(items, cats, files) ==
    IF items = <<>> THEN files
    ELSE _generate_post_pages(Tail(items), cats,
            WriteFile(files, <<Head(items).slug, "index.html">>,
                      Page("post", cats, Head(items).category, None, None,
                           <<Head(items).slug>>)))

Urls(post_list) == [i \in 1..Len(post_list) |-> post_list[i].slug]

\* The page written for a listing: under dir for a category (named group), at
\* the root for the home pages.
ListingPage(cats, group, dir, names, got) ==
    Page(IF dir = <<>> THEN "home" ELSE "category", cats,
         IF dir = <<>> THEN "Home" ELSE group, names[2], names[3], Urls(got.ret))

RECURSIVE ListingPagesFrom(_, _, _, _, _, _, _, _)
\* One pass of the page loop: the page named names, filled with got.
ListingPageWith(t, inst, group, dir, limit, page_number, number_of_pages, files, names, got) ==
    IF got.status.kind # "ok" THEN [files |-> files, status |-> got.status]
    ELSE ListingPagesFrom(t, inst, group, dir, limit, page_number + 1, number_of_pages,
            WriteFile(files, dir \o <<names[1]>>,
                      ListingPage(inst.categories, group, dir, names, got)))

\* The page loop of _generate_category_pages and of _generate_home_pages from
\* page_number on: each page is named by _get_page_name, filled by
\* get_most_recent_posts(group, limit, page_number * limit) and written under dir.
ListingPagesFrom(t, inst, group, dir, limit, page_number, number_of_pages, files) ==
    IF page_number >= number_of_pages THEN [files |-> files, status |-> Ok]
    ELSE ListingPageWith(t, inst, group, dir, limit, page_number, number_of_pages, files,
            _get_page_name(page_number, number_of_pages),
            get_most_recent_posts(t, inst, group, limit, page_number * limit))

RECURSIVE CategoryPagesFrom(_, _, _, _, _, _)
\* One pass of the category loop, whose pages ended as pages.
CategoryPagesWith(t, inst, limit, cats, dirs, pages) ==
    IF pages.status.kind # "ok"
    THEN [dirs |-> dirs, files |-> pages.files, status |-> pages.status]
    ELSE CategoryPagesFrom(t, inst, limit, Tail(cats), dirs, pages.files)

\* The category loop of _generate_category_pages over cats: the directory
\* <output>/<category.lower()> is made unless it is there, then the pages.
CategoryPagesFrom(t, inst, limit, cats, dirs, files) ==
    IF cats = <<>> THEN [dirs |-> dirs, files |-> files, status |-> Ok]
    ELSE CategoryPagesWith(t, inst, limit, cats, dirs \cup {<<Lower(Head(cats))>>},
            ListingPagesFrom(t, inst, Head(cats), <<Lower(Head(cats))>>, limit, 0,
                NumberOfPages(Len(inst.sorted_posts.v[Head(cats)]), limit), files))

\* _generate_category_pages
_generate_category_pages(t, inst, limit, dirs, files) ==
    CategoryPagesFrom(t, inst, limit, inst.categories, dirs, files)

\* _generate_home_pages
_generate_home_pages(t, inst, limit, files) ==
    ListingPagesFrom(t, inst, "all_posts", <<>>, limit, 0,
                     NumberOfPages(Len(inst.sorted_posts.v["all_posts"]), limit), files)

---------------------------------------------------------------------------
(* The state machine *)

\* The fields of the instance in the current state.
Self == Instance(categories, posts, sorted_posts)

NoCall(op) == [op |-> op, args |-> <<>>]

FileCount(t) == IF t = <<>> THEN 0 ELSE Len(t[1].files) + (IF Len(t) > 1 THEN Len(t[2].files) ELSE 0)

\* After __init__: self.categories is the list of directories of the content
\* directory (at least one), self.posts and self.sorted_posts are None.
Init ==
    /\ \E layout \in CategoryLayouts :
          /\ tree = [i \in 1..Len(layout) |-> [name |-> layout[i], files |-> <<>>]]
          /\ categories = layout
    /\ category_page_post_limit \in 1..MaxPageSize
    /\ index_page_post_limit = MaxPageSize + 1 - category_page_post_limit
    /\ posts = NoneOf(<<>>)
    /\ sorted_posts = NoneOf(NoGroups)
    /\ out_dirs = {}
    /\ out_files = NoFiles
    /\ dirty = FALSE
    /\ pc = "idle"
    /\ status = Ok
    /\ call = NoCall("__init__")
    /\ ret = <<>>

\* The author adds a file to a category directory of the content tree. The tree
\* is edited while the instance holds no index: before its first use or after
\* clean().
AddFile(i, f) ==
    /\ pc = "idle"
    /\ FileCount(tree) < MaxPosts
    /\ MayHold(i, f)
    /\ posts.isNone /\ sorted_posts.isNone
    /\ f \notin Range(tree[i].files)
    /\ tree' = [tree EXCEPT ![i].files = ListingWith(@, f)]
    /\ status' = Ok
    /\ call' = NoCall("edit")
    /\ ret' = <<>>
    /\ UNCHANGED <<category_page_post_limit, index_page_post_limit, categories, posts,
                   sorted_posts, out_dirs, out_files, dirty, pc>>

\* clean(): the post cache is dropped and the output directory is emptied (or made).
clean ==
    /\ pc = "idle"
    /\ posts' = NoneOf(<<>>)
    /\ sorted_posts' = NoneOf(NoGroups)
    /\ out_dirs' = {<<>>}
    /\ out_files' = NoFiles
    /\ status' = Ok
    /\ call' = NoCall("clean")
    /\ ret' = <<>>
    /\ UNCHANGED <<tree, category_page_post_limit, index_page_post_limit, categories, dirty, pc>>

\* A generate() that is not the code's: clean() drops the post cache and
\* leaves the output directory as it is.
generate_keeping_output ==
    /\ pc = "idle"
    /\ posts' = NoneOf(<<>>)
    /\ sorted_posts' = NoneOf(NoGroups)
    /\ out_dirs' = out_dirs \cup {<<>>}
    /\ out_files' = out_files
    /\ status' = Ok
    /\ call' = NoCall("generate")
    /\ ret' = <<>>
    /\ pc' = "_get_posts"
    /\ dirty' = (out_files # NoFiles)
    /\ UNCHANGED <<tree, category_page_post_limit, index_page_post_limit, categories>>

\* generate() is called: its first statement, self.clean().
generate ==
    /\ pc = "idle"
    /\ posts' = NoneOf(<<>>)
    /\ sorted_posts' = NoneOf(NoGroups)
    /\ out_dirs' = {<<>>}
    /\ out_files' = NoFiles
    /\ status' = Ok
    /\ call' = NoCall("generate")
    /\ ret' = <<>>
    /\ pc' = "_get_posts"
    /\ dirty' = (out_files # NoFiles)
    /\ UNCHANGED <<tree, category_page_post_limit, index_page_post_limit, categories>>

\* Where generate() goes on after a step that ended with status st: an
\* exception or exit(1) ends the call.
Goto(st, next_pc) ==
    /\ status' = st
    /\ pc' = IF st.kind = "ok" THEN next_pc ELSE "idle"
    /\ dirty' = (dirty /\ st.kind = "ok" /\ next_pc # "idle")

\* self._get_posts() ended as r.
Loaded(r) ==
    /\ posts' = Some(r.items)
    /\ Goto(r.status, "_sort_posts")

generate_get_posts ==
    /\ pc = "_get_posts"
    /\ Loaded(_get_posts(tree, categories))
    /\ UNCHANGED <<tree, category_page_post_limit, index_page_post_limit, categories,
                   sorted_posts, out_dirs, out_files, call, ret>>

\* A method that works on the index ended as r.
Indexed(r) ==
    /\ categories' = r.inst.categories
    /\ posts' = r.inst.posts
    /\ sorted_posts' = r.inst.sorted_posts

generate_sort_posts ==
    /\ pc = "_sort_posts"
    /\ Indexed(_sort_posts(tree, Self))
    /\ Goto(_sort_posts(tree, Self).status, "_copy_static_assets")
    /\ UNCHANGED <<tree, category_page_post_limit, index_page_post_limit,
                   out_dirs, out_files, call, ret>>

\* A method that writes to the output tree ended as r.
Written(r, next_pc) ==
    /\ out_dirs' = r.dirs
    /\ out_files' = r.files
    /\ Goto(r.status, next_pc)

generate_copy_static_assets ==
    /\ pc = "_copy_static_assets"
    /\ Written(_copy_static_assets(out_dirs, out_files), "_copy_post_assets")
    /\ UNCHANGED <<tree, category_page_post_limit, index_page_post_limit, categories, posts,
                   sorted_posts, call, ret>>

generate_copy_post_assets ==
    /\ pc = "_copy_post_assets"
    /\ Written(_copy_post_assets(posts.v, out_dirs, out_files), "_generate_post_pages")
    /\ UNCHANGED <<tree, category_page_post_limit, index_page_post_limit, categories, posts,
                   sorted_posts, call, ret>>

generate_post_pages ==
    /\ pc = "_generate_post_pages"
    /\ out_files' = _generate_post_pages(posts.v, categories, out_files)
    /\ Goto(Ok, "_generate_category_pages")
    /\ UNCHANGED <<tree, category_page_post_limit, index_page_post_limit, categories, posts,
                   sorted_posts, out_dirs, call, ret>>

generate_category_pages ==
    /\ pc = "_generate_category_pages"
    /\ Written(_generate_category_pages(tree, Self, category_page_post_limit,
                                        out_dirs, out_files),
               "_generate_home_pages")
    /\ UNCHANGED <<tree, category_page_post_limit, index_page_post_limit, categories, posts,
                   sorted_posts, call, ret>>

\* self._generate_home_pages() ended as r, and generate() with it.
HomeWritten(r) ==
    /\ out_files' = r.files
    /\ Goto(r.status, "idle")

generate_home_pages ==
    /\ pc = "_generate_home_pages"
    /\ HomeWritten(_generate_home_pages(tree, Self, index_page_post_limit, out_files))
    /\ UNCHANGED <<tree, category_page_post_limit, index_page_post_limit, categories, posts,
                   sorted_posts, out_dirs, call, ret>>

\* The category names a caller may ask for.
QueryCategories == {"tech", "Life", "all_posts"}

\* A query ended as r.
Answered(r) ==
    /\ Indexed(r)
    /\ status' = r.status
    /\ ret' = r.ret
    /\ pc' = "returned"

\* A caller calls get_most_recent_post_titles(category, number, offset).
call_get_most_recent_post_titles(category, number, offset) ==
    /\ pc = "idle"
    /\ Answered(get_most_recent_post_titles(tree, Self, category, number, offset))
    /\ call' = [op |-> "get_most_recent_post_titles", args |-> <<category, number, offset>>]
    /\ UNCHANGED <<tree, category_page_post_limit, index_page_post_limit,
                   out_dirs, out_files, dirty>>

\* A caller calls get_most_recent_posts(category, number, offset).
call_get_most_recent_posts(category, number, offset) ==
    /\ pc = "idle"
    /\ Answered(get_most_recent_posts(tree, Self, category, number, offset))
    /\ call' = [op |-> "get_most_recent_posts", args |-> <<category, number, offset>>]
    /\ UNCHANGED <<tree, category_page_post_limit, index_page_post_limit,
                   out_dirs, out_files, dirty>>

\* The caller has taken what a query returned (or caught what it raised).
return ==
    /\ pc = "returned"
    /\ pc' = "idle"
    /\ status' = Ok
    /\ call' = NoCall("return")
    /\ ret' = <<>>
    /\ UNCHANGED <<tree, category_page_post_limit, index_page_post_limit, categories, posts,
                   sorted_posts, out_dirs, out_files, dirty>>

Next ==
    \/ \E i \in 1..Len(tree), f \in Range(FileCatalog) : AddFile(i, f)
    \/ clean
    \/ generate
    \/ generate_get_posts
    \/ generate_sort_posts
    \/ generate_copy_static_assets
    \/ generate_copy_post_assets
    \/ generate_post_pages
    \/ generate_category_pages
    \/ generate_home_pages
    \/ \E category \in QueryCategories, number \in 0..MaxPageSize, offset \in 0..MaxPosts :
          call_get_most_recent_post_titles(category, number, offset)
    \/ \E category \in QueryCategories, number \in 0..MaxPageSize, offset \in 0..MaxPosts :
          call_get_most_recent_posts(category, number, offset)
    \/ return

Spec == Init /\ [][Next]_vars

---------------------------------------------------------------------------
(* _get_page_name on its own: every page of every page count up to MaxPages *)

InitPageName ==
    /\ tree = <<>>
    /\ category_page_post_limit = 1
    /\ index_page_post_limit = 1
    /\ categories = <<>>
    /\ posts = NoneOf(<<>>)
    /\ sorted_posts = NoneOf(NoGroups)
    /\ out_dirs = {}
    /\ out_files = NoFiles
    /\ dirty = FALSE
    /\ pc = "called"
    /\ status = Ok
    /\ \E number_of_pages \in 1..MaxPages :
         \E page_number \in 0..(number_of_pages - 1) :
            call = [op |-> "_get_page_name", args |-> <<page_number, number_of_pages>>]
    /\ ret = <<>>

call_get_page_name ==
    /\ pc = "called"
    /\ call.op = "_get_page_name"
    /\ ret' = _get_page_name(call.args[1], call.args[2])
    /\ pc' = "returned"
    /\ UNCHANGED <<tree, category_page_post_limit, index_page_post_limit, categories, posts,
                   sorted_posts, out_dirs, out_files, dirty, status, call>>

NextPageName == call_get_page_name

SpecPageName == InitPageName /\ [][NextPageName]_vars

---------------------------------------------------------------------------
(* What the properties below speak about *)

\* The names of the category directories of the content tree.
TreeCategories == [i \in 1..Len(tree) |-> tree[i].name]

\* Every document of the content tree, whatever self.categories holds.
TreeDocuments == Discover(tree, TreeCategories)

\* The documents of one category directory of the content tree.
DocumentsIn(category) == _get_post_file_paths(CategoryFiles(tree, category))

\* generate() has passed its loading step (and may have ended there).
PastLoading == call.op = "generate" /\ pc # "_get_posts"

\* generate() has passed its index build and is still running, or has run to its end.
PastIndexing ==
    /\ call.op = "generate"
    /\ \/ pc \in {"_copy_static_assets", "_copy_post_assets", "_generate_post_pages",
                  "_generate_category_pages", "_generate_home_pages"}
       \/ pc = "idle" /\ status.kind = "ok"

\* generate() has ended, one way or the other.
GenerateEnded == call.op = "generate" /\ pc = "idle"

\* generate() has run to its end.
GenerateDone == GenerateEnded /\ status.kind = "ok"

\* Nothing is in the output directory.
NothingWritten == out_files = NoFiles /\ out_dirs \subseteq {<<>>}

\* C1. Slug uniqueness: after _get_posts has completed successfully no two
\* loaded documents have the same lower-cased file base name; and a generate()
\* on a content tree in which two files have the same slug ends in exit(1)
\* with nothing written to the output tree.
C1_SlugUniqueness ==
    /\ (call.op = "generate" /\ pc = "_sort_posts") =>
          \A i, j \in 1..Len(posts.v) :
             i # j => Lower(posts.v[i].path[2]) # Lower(posts.v[j].path[2])
    /\ (PastLoading /\ \E i, j \in 1..Len(TreeDocuments) :
                          /\ i # j
                          /\ Lower(TreeDocuments[i].file.name) = Lower(TreeDocuments[j].file.name))
          => /\ GenerateEnded
             /\ status.kind = "SystemExit" /\ status.code = 1
             /\ NothingWritten

---------------------------------------------------------------------------
(* Pagination *)

\* The file names of the pages of a listing, written out.
ExpectedPageName(k) ==
    IF k = 0 THEN "index.html"
    ELSE << "page1.html", "page2.html", "page3.html", "page4.html", "page5.html",
            "page6.html", "page7.html", "page8.html", "page9.html", "page10.html",
            "page11.html", "page12.html", "page13.html" >>[k]

\* ceil(n / s): the least p with p * s >= n.
CeilDiv(n, s) == CHOOSE p \in 0..n : p * s >= n /\ \A q \in 0..n : q * s >= n => p <= q

Min(a, b) == IF a <= b THEN a ELSE b

\* The listing pages that the output tree holds directly under dir.
ListingFiles(dir) ==
    { path \in DOMAIN out_files :
         /\ Len(path) = Len(dir) + 1
         /\ SubSeq(path, 1, Len(dir)) = dir
         /\ out_files[path].kind \in {"category", "home"} }

RECURSIVE ConcatPages(_, _, _)
\* The item lists of pages k .. number_of_pages - 1 under dir, one after the other.
ConcatPages(dir, k, number_of_pages) ==
    IF k >= number_of_pages THEN <<>>
    ELSE out_files[dir \o <<ExpectedPageName(k)>>].posts
         \o ConcatPages(dir, k + 1, number_of_pages)

\* The pages under dir are exactly the ceil(N/S) windows of size S over titles.
Paginated(dir, titles, S) ==
    LET N == Len(titles)
        P == CeilDiv(N, S)
    IN  /\ Cardinality(ListingFiles(dir)) = P
        /\ \A k \in 0..(P - 1) :
              /\ dir \o <<ExpectedPageName(k)>> \in ListingFiles(dir)
              /\ out_files[dir \o <<ExpectedPageName(k)>>].posts
                    = SubSeq(titles, k * S + 1, Min(k * S + S, N))
              /\ k < P - 1 => Len(out_files[dir \o <<ExpectedPageName(k)>>].posts) = S
        /\ (\A k \in 0..(P - 1) : dir \o <<ExpectedPageName(k)>> \in DOMAIN out_files)
              => ConcatPages(dir, 0, P) = titles

\* C2. Pagination arithmetic: when generate() has run to its end, every
\* category group of N documents has exactly ceil(N/S) category pages (S the
\* category page size) and the global group exactly ceil(N/S) home pages (S
\* the home page size); page k holds items [k*S, min(k*S+S, N)) of the sorted
\* group, only the last page may hold fewer than S, and the pages one after
\* the other give the sorted group again.
C2_Pagination ==
    GenerateDone =>
       /\ \A c \in Range(categories) :
             Paginated(<<Lower(c)>>, PostTitles(sorted_posts.v[c]), category_page_post_limit)
       /\ Paginated(<<>>, PostTitles(sorted_posts.v["all_posts"]), index_page_post_limit)

\* A run that paged a category of three documents two to a page.
C2_Witness ==
    /\ GenerateDone
    /\ category_page_post_limit = 2
    /\ \E c \in Range(categories) :
          /\ Len(sorted_posts.v[c]) = 3
          /\ Len(out_files[<<Lower(c), "page1.html">>].posts) = 1

---------------------------------------------------------------------------
(* Sort order *)

\* The parsed date of the loaded document with slug post_title.
DateOf(post_title) == strptime(PostOf(posts.v, post_title).date)

\* d1 is the same day as d2 or a later one.
NotOlder(d1, d2) ==
    \/ d1[2] > d2[2]
    \/ d1[2] = d2[2] /\ d1[3] > d2[3]
    \/ d1[2] = d2[2] /\ d1[3] = d2[3] /\ d1[4] >= d2[4]

\* The place of a document in the order of discovery.
DiscoveryIndex(post_title) == CHOOSE i \in 1..Len(posts.v) : posts.v[i].slug = post_title

\* Newest first, and documents of the same date in the order of discovery.
NewestFirstStable(group) ==
    \A i, j \in 1..Len(group) :
       i < j =>
          /\ NotOlder(DateOf(group[i][1]), DateOf(group[j][1]))
          /\ NotOlder(DateOf(group[j][1]), DateOf(group[i][1]))
                => DiscoveryIndex(group[i][1]) <= DiscoveryIndex(group[j][1])

AllGroupsSorted == \A g \in DOMAIN sorted_posts.v : NewestFirstStable(sorted_posts.v[g])

\* A step in which _sort_posts ran to its end: inside generate(), or inside a
\* query that found no index.
SortCompleted ==
    \/ pc = "_sort_posts" /\ pc' = "_copy_static_assets"
    \/ /\ pc = "idle" /\ pc' = "returned"
       /\ ~Truthy(sorted_posts, NoGroups)
       /\ status'.kind = "ok"

\* C3. Sort invariant: after _sort_posts every group (each category and
\* all_posts) is newest first, and documents with equal parsed dates are in
\* the order in which the loader discovered them.
C3_SortInvariant == [][SortCompleted => AllGroupsSorted']_vars

\* An index with a group of three: two documents of one date, then an older one
\* that was discovered first.
C3_Witness ==
    /\ pc = "_copy_static_assets"
    /\ \E g \in DOMAIN sorted_posts.v :
          /\ Len(sorted_posts.v[g]) = 3
          /\ sorted_posts.v[g][1][2] = sorted_posts.v[g][2][2]
          /\ sorted_posts.v[g][2][2] > sorted_posts.v[g][3][2]
          /\ DiscoveryIndex(sorted_posts.v[g][3][1]) = 1

---------------------------------------------------------------------------
(* Navigation links *)

\* C4. Navigation links: page 0 is index.html and has no previous page; the
\* last page has no next page; the previous page of page 1 is index.html and
\* of page k > 1 it is page(k-1).html; and the page that a page's next link
\* names has that page as its previous page.
C4_NavigationLinks ==
    (pc = "returned" /\ call.op = "_get_page_name") =>
       LET k == call.args[1]
           P == call.args[2]
       IN  /\ k = 0 => ret[1] = "index.html" /\ ret[2] = None
           /\ k = P - 1 => ret[3] = None
           /\ k = 1 => ret[2] = "index.html"
           /\ k > 1 => ret[2] = ExpectedPageName(k - 1)
           /\ k < P - 1 =>
                 /\ \E j \in 0..(P - 1) : _get_page_name(j, P)[1] = ret[3]
                 /\ \A j \in 0..(P - 1) :
                       _get_page_name(j, P)[1] = ret[3] => _get_page_name(j, P)[2] = ret[1]

\* An inner page with a two-digit number.
C4_Witness ==
    /\ pc = "returned"
    /\ call = [op |-> "_get_page_name", args |-> <<10, 12>>]
    /\ ret = <<"page10.html", "page9.html", "page11.html">>

---------------------------------------------------------------------------
(* Queries *)

IsTitlesCall == pc = "returned" /\ call.op = "get_most_recent_post_titles"

IsQuery == pc = "returned" /\ call.op \in {"get_most_recent_post_titles", "get_most_recent_posts"}

\* The index a query made in this state works on: the one the instance holds,
\* or the one the query builds when the instance holds none.
QueryIndex == SortIfNeeded(tree, Self)

\* The group that a query for category reads holds documents.
NonEmptyGroup(category) ==
    /\ QueryIndex.status.kind = "ok"
    /\ category \in DOMAIN QueryIndex.inst.sorted_posts.v
    /\ Len(QueryIndex.inst.sorted_posts.v[category]) > 0

GroupTitles(category) == PostTitles(QueryIndex.inst.sorted_posts.v[category])

\* A step that is a call of get_most_recent_post_titles.
TitlesCalled == pc = "idle" /\ pc' = "returned" /\ call'.op = "get_most_recent_post_titles"

\* C8. Offset bound: on a group of N > 0 documents
\* get_most_recent_post_titles(category, number, offset) fails an assertion
\* when offset >= N or number = 0, and otherwise returns items
\* [offset, min(offset + number, N)) of the group.
C8_OffsetBound ==
    [][ (TitlesCalled /\ NonEmptyGroup(call'.args[1])) =>
           /\ (call'.args[3] >= Len(GroupTitles(call'.args[1])) \/ call'.args[2] = 0)
                 => status'.kind = "AssertionError"
           /\ (call'.args[3] < Len(GroupTitles(call'.args[1])) /\ call'.args[2] > 0)
                 => /\ status'.kind = "ok"
                    /\ ret' = SubSeq(GroupTitles(call'.args[1]), call'.args[3] + 1,
                                     Min(call'.args[3] + call'.args[2],
                                         Len(GroupTitles(call'.args[1]))))
      ]_vars

\* One title asked for from the middle of a group of three.
C8_Witness ==
    /\ IsTitlesCall
    /\ status.kind = "ok"
    /\ NonEmptyGroup(call.args[1])
    /\ Len(GroupTitles(call.args[1])) = 3
    /\ call.args[2] = 1 /\ call.args[3] = 1
    /\ ret = <<GroupTitles(call.args[1])[2]>>

---------------------------------------------------------------------------
(* Fatal load errors *)

\* A document that self._get_posts() comes across lacks its title or its date.
RequiredMetadataMissing ==
    \E i \in 1..Len(Discover(tree, categories)) :
       \/ Discover(tree, categories)[i].file.title = None
       \/ Discover(tree, categories)[i].file.date = None

\* C9. Missing required metadata is fatal: when a discovered document has no
\* title or no date, generate() ends in its loading step with exit(1), and
\* nothing has been written to the output tree.
C9_MissingMetadataFatal ==
    (PastLoading /\ RequiredMetadataMissing) =>
       /\ GenerateEnded
       /\ status.kind = "SystemExit" /\ status.code = 1
       /\ NothingWritten

\* A run that ended at a document without a date, after it had loaded another.
C9_Witness ==
    /\ GenerateEnded
    /\ RequiredMetadataMissing
    /\ status = SystemExit(<<"No date metadata specified in", <<"Life">>, "e", ".md">>)
    /\ Len(posts.v) = 2


\* A loaded document whose date does not parse with the date format.
Unparsable(post) == post.date # None /\ ~strptime(post.date)[1]

\* C10. Unparsable date is fatal and identified: when a loaded document has a
\* date that does not parse, the index build ends generate() with an error
\* that names the document by its slug and gives the raw date string.
C10_UnparsableDateIdentified ==
    (GenerateEnded /\ status.kind # "SystemExit"
        /\ \E i \in 1..Len(posts.v) : Unparsable(posts.v[i]))
    => /\ status.kind # "ok"
       /\ \E i \in 1..Len(posts.v) :
             /\ Unparsable(posts.v[i])
             /\ posts.v[i].slug \in Range(status.message)
             /\ posts.v[i].date \in Range(status.message)

---------------------------------------------------------------------------
(* Empty categories and empty results *)

\* The output tree has something for category: its directory or a page in it.
HasOutputFor(category) ==
    \/ <<Lower(category)>> \in out_dirs
    \/ \E path \in DOMAIN out_files : Len(path) = 2 /\ path[1] = Lower(category)

\* A page of the output tree lists category in its navigation.
InNavigation(category) ==
    \E path \in DOMAIN out_files : category \in Range(out_files[path].categories)

\* C5. Category pruning: a category directory without documents is dropped
\* from self.categories and from sorted_posts by _sort_posts, so that in the
\* same generate() no page lists it in its navigation and the output tree has
\* no directory and no page for it.
C5_CategoryPruning ==
    PastIndexing =>
       \A c \in Range(TreeCategories) :
          DocumentsIn(c) = <<>> =>
             /\ c \notin Range(categories)
             /\ c \notin DOMAIN sorted_posts.v
             /\ ~InNavigation(c)
             /\ ~HasOutputFor(c)

\* C6. Benign empty result: generate() on a content tree without any document
\* runs to its end without an error and writes no listing page.
C6_BenignEmpty ==
    (GenerateEnded /\ TreeDocuments = <<>>) =>
       /\ status.kind = "ok"
       /\ \A path \in DOMAIN out_files : out_files[path].kind \notin {"category", "home"}

\* The group asked for holds no document: a category directory of the content
\* tree without documents, or all_posts when the tree has no document at all.
EmptyGroup(category) ==
    \/ category \in Range(TreeCategories) /\ DocumentsIn(category) = <<>>
    \/ category = "all_posts" /\ TreeDocuments = <<>>

\* C7. Empty-group query: get_most_recent_post_titles and
\* get_most_recent_posts, asked for a group without documents, return an
\* empty sequence and do not raise, whatever the state of the instance.
C7_EmptyGroupQuery ==
    (IsQuery /\ call.args[2] # 0 /\ EmptyGroup(call.args[1])) =>
       status.kind = "ok" /\ ret = <<>>

---------------------------------------------------------------------------
(* Order of clearing and writing *)

\* A step that puts a file or a directory into the output directory.
WritesOutput ==
    \/ \E path \in DOMAIN out_files' : path \notin DOMAIN out_files \/ out_files'[path] # out_files[path]
    \/ (out_dirs' \ out_dirs) \ {<<>>} # {}

\* The steps of generate() that come after self.clean().
AfterClean ==
    /\ call.op = "generate"
    /\ pc \in {"_copy_static_assets", "_copy_post_assets", "_generate_post_pages",
               "_generate_category_pages", "_generate_home_pages"}

\* C11. Clear-before-write ordering: the first step of every generate() leaves
\* the output directory there and empty, whatever an earlier run put into it,
\* and every static asset, post directory, post page, category page and home
\* page is written in a later step of that run, so that nothing of an earlier
\* run is left in the output of this one.
C11_ClearBeforeWrite ==
    [][ /\ (pc = "idle" /\ pc' = "_get_posts") => (out_files' = NoFiles /\ out_dirs' = {<<>>})
        /\ WritesOutput => AfterClean
      ]_vars

\* generate() has just cleared an output directory that held the files of an
\* earlier run.
C11_Witness ==
    /\ dirty
    /\ call.op = "generate" /\ pc = "_get_posts"
    /\ out_files = NoFiles /\ out_dirs = {<<>>}

---------------------------------------------------------------------------
(* Output paths *)

\* No two loaded documents have the same slug.
SlugsUnique == \A i, j \in 1..Len(posts.v) : posts.v[i].slug = posts.v[j].slug => i = j

\* The directories generate() makes in the output directory, one per entry:
\* the mirrored static directory, one per post, one per category.
OutputDirectories ==
    <<"static">> \o [i \in 1..Len(posts.v) |-> posts.v[i].slug]
                 \o [i \in 1..Len(categories) |-> Lower(categories[i])]

\* C12. Distinct output paths: with unique slugs, the static directory, the
\* post directories and the category directories of one generate() run are
\* pairwise distinct paths, and so every post page <slug>/index.html is still
\* the post's page when the run has ended and every category index page is
\* the category's.
C12_DistinctOutputPaths ==
    (GenerateDone /\ SlugsUnique) =>
       /\ \A i, j \in 1..Len(OutputDirectories) :
             OutputDirectories[i] = OutputDirectories[j] => i = j
       /\ \A i \in 1..Len(posts.v) :
             /\ <<posts.v[i].slug, "index.html">> \in DOMAIN out_files
             /\ out_files[<<posts.v[i].slug, "index.html">>].kind = "post"
       /\ \A c \in Range(categories) :
             /\ <<Lower(c), "index.html">> \in DOMAIN out_files
             /\ out_files[<<Lower(c), "index.html">>].kind = "category"
             /\ out_files[<<Lower(c), "index.html">>].page_category = c

---------------------------------------------------------------------------
(* The global group *)

RECURSIVE SumOfLengths(_, _)
\* The lengths of the groups of the categories cats, added up.
SumOfLengths(groups, cats) ==
    IF cats = <<>> THEN 0 ELSE Len(groups[Head(cats)]) + SumOfLengths(groups, Tail(cats))

\* How often the document post_title is in group.
Occurrences(group, post_title) ==
    Cardinality({ i \in 1..Len(group) : group[i][1] = post_title })

\* C13. Global group membership: after _sort_posts the all_posts group holds
\* every loaded document exactly once and nothing else: it is as long as the
\* collection of loaded documents and as long as the category groups together.
C13_GlobalGroupMembership ==
    (call.op = "generate" /\ pc = "_copy_static_assets") =>
       /\ \A i \in 1..Len(posts.v) :
             Occurrences(sorted_posts.v["all_posts"], posts.v[i].slug) = 1
       /\ Len(sorted_posts.v["all_posts"]) = Len(posts.v)
       /\ Len(sorted_posts.v["all_posts"]) = SumOfLengths(sorted_posts.v, categories)

---------------------------------------------------------------------------
(* Runs on one instance *)

\* The paths of the documents of the content tree, in the order of a full scan.
TreePaths ==
    [i \in 1..Len(TreeDocuments) |->
        <<ParentOf(TreeDocuments[i].category, TreeDocuments[i].file),
          TreeDocuments[i].file.name, TreeDocuments[i].file.ext>>]

\* C14. Every run re-scans the full content tree: when a generate() has run
\* to its end, the loaded documents are the documents of the content tree as
\* it is, and every category directory that holds documents is a category of
\* the instance, has its group, its pages and its place in the navigation of
\* every page, whatever earlier calls on the instance did.
C14_RescanEveryRun ==
    GenerateDone =>
       /\ [i \in 1..Len(posts.v) |-> posts.v[i].path] = TreePaths
       /\ \A c \in Range(TreeCategories) :
             DocumentsIn(c) # <<>> =>
                /\ c \in Range(categories)
                /\ c \in DOMAIN sorted_posts.v
                /\ <<Lower(c), "index.html">> \in DOMAIN out_files
                /\ \A path \in DOMAIN out_files :
                      out_files[path].kind # "asset" => c \in Range(out_files[path].categories)

---------------------------------------------------------------------------
(* Assets *)

\* Every directory under the category directories of the content tree.
TreeDirs == UNION { CategoryDirs(tree, c) : c \in Range(TreeCategories) }

\* The assets path of a document in directory dir with slug slug: dir when it
\* is named slug, else the directory slug beside the file when there is one,
\* else none.
AssetsByRule(dir, slug) ==
    IF dir[Len(dir)] = slug THEN dir
    ELSE IF dir \o <<slug>> \in TreeDirs THEN dir \o <<slug>>
    ELSE <<>>

\* C15. Assets path rule: the assets path of every loaded document is its own
\* parent directory when that directory is named like the slug, else the
\* directory named like the slug in the same directory as the file when there
\* is one, else none; at any depth under the category directory.
C15_AssetsPathRule ==
    ~posts.isNone =>
       \A i \in 1..Len(posts.v) :
          posts.v[i].assets = AssetsByRule(posts.v[i].path[1], posts.v[i].slug)

---------------------------------------------------------------------------
(* Preconditions under internal use *)

\* The listing pages of the output tree: category pages and home pages.
ListingPaths == { path \in DOMAIN out_files : out_files[path].kind \in {"category", "home"} }

\* C16. No precondition violation under internal use: no step of generate()
\* ends in a failed assertion of get_most_recent_post_titles or
\* get_most_recent_posts, and every listing page written was filled from an
\* offset below the length of its group: it lists at least one document.
C16_NoInternalAssertion ==
    call.op = "generate" =>
       /\ status.kind # "AssertionError"
       /\ \A path \in ListingPaths : out_files[path].posts # <<>>

\* A run that paged groups whose length is a multiple of the page size: the
\* last page is full, and the next offset would be the length of the group.
C16_Witness ==
    /\ GenerateDone
    /\ Len(posts.v) = 2
    /\ \E c \in Range(categories) :
          /\ Len(sorted_posts.v[c]) = 2 * category_page_post_limit
          /\ <<Lower(c), "page1.html">> \in ListingPaths
          /\ out_files[<<Lower(c), "page1.html">>].next_page = None
    /\ Len(sorted_posts.v["all_posts"]) = index_page_post_limit
    /\ out_files[<<"index.html">>].next_page = None

---------------------------------------------------------------------------
(* After a fatal error *)

\* How loading and indexing the content tree ends for this instance when it
\* starts from nothing.
FreshBuild == _sort_posts(tree, Instance(categories, NoneOf(<<>>), NoneOf(NoGroups)))

\* The documents this instance finds cannot be loaded and indexed: a slug
\* occurs twice, a title or a date is missing, or a date does not parse.
BuildIsFatal == FreshBuild.status.kind \in {"SystemExit", "ValueError"}

\* A step that is a call of one of the two queries.
QueryCalled ==
    /\ pc = "idle" /\ pc' = "returned"
    /\ call'.op \in {"get_most_recent_post_titles", "get_most_recent_posts"}

\* C17. No partial-completion state after a fatal error: when loading or
\* indexing the documents of the instance ends in a fatal error, no query on
\* the instance returns documents, neither the query that runs into the error
\* nor any query after an aborted generate() or query.
C17_NoPartialState ==
    [][ (QueryCalled /\ BuildIsFatal) => ~(status'.kind = "ok" /\ ret' # <<>>) ]_vars

---------------------------------------------------------------------------
(* Lazy index build *)

\* The group category holds documents in the content tree.
HoldsDocuments(category) ==
    \/ category \in Range(TreeCategories) /\ DocumentsIn(category) # <<>>
    \/ category = "all_posts" /\ TreeDocuments # <<>>

\* get_most_recent_posts(category, number, offset) called after a generate()
\* whose index build ended as built: when the build failed, generate() ended
\* in that failure.
QueryAfter(built, category, number, offset) ==
    IF built.status.kind # "ok"
    THEN [inst |-> built.inst, status |-> built.status, ret |-> <<>>]
    ELSE get_most_recent_posts(tree, built.inst, category, number, offset)

\* A step that is a call get_most_recent_posts(category, number, offset) for
\* a group with documents, with arguments that pass the opening assertions,
\* on an instance that holds neither posts nor index.
LazyCall ==
    /\ pc = "idle" /\ pc' = "returned"
    /\ call'.op = "get_most_recent_posts"
    /\ posts.isNone /\ sorted_posts.isNone
    /\ HoldsDocuments(call'.args[1])
    /\ ValidateInputs(Self, call'.args[1], call'.args[2]).kind = "ok"

\* What the same call gives after generate() on the instance as it is.
Explicit == QueryAfter(generate_index(tree, Self), call'.args[1], call'.args[2], call'.args[3])

\* A step that is a query on an instance that holds an index.
RepeatedQuery == QueryCalled /\ Truthy(sorted_posts, NoGroups)

\* _sort_posts called once more would leave categories and index as they are.
SortIsIdempotent ==
    /\ _sort_posts(tree, Self).inst.categories = categories
    /\ _sort_posts(tree, Self).inst.sorted_posts = sorted_posts

\* C18. Lazy index build is equivalent to the explicit pipeline: on an
\* instance without posts and index, get_most_recent_posts for a group with
\* documents loads and sorts, and ends as the same call after generate()
\* ends: the same documents in the same order from the same categories and
\* index (or the same fatal error); and once there is an index, a query
\* leaves categories, posts and index as they are, as would a further
\* _sort_posts.
C18_LazyEqualsExplicit ==
    [][ /\ LazyCall =>
              /\ status' = Explicit.status
              /\ ret' = Explicit.ret
              /\ categories' = Explicit.inst.categories
              /\ posts' = Explicit.inst.posts
              /\ sorted_posts' = Explicit.inst.sorted_posts
        /\ RepeatedQuery =>
              /\ categories' = categories
              /\ posts' = posts
              /\ sorted_posts' = sorted_posts
              /\ SortIsIdempotent
      ]_vars

\* On an instance that never ran clean() or generate(), get_most_recent_posts
\* has returned the two newest of three documents, from the index the queries
\* built, which dropped an empty category.
C18_Witness ==
    /\ out_dirs = {}
    /\ pc = "returned" /\ call.op = "get_most_recent_posts"
    /\ call.args[2] = 2 /\ call.args[3] = 0
    /\ status.kind = "ok"
    /\ Len(ret) = 2
    /\ Len(posts.v) = 3
    /\ Len(categories) < Len(TreeCategories)
    /\ [i \in 1..2 |-> ret[i].slug] = SubSeq(PostTitles(sorted_posts.v[call.args[1]]), 1, 2)

=============================================================================
